---- MODULE Spec2Model ----
(***************************************************************************)
(* Model of file/addfs/per_node.go: ApplyPerNodeFuncs overlays a read-only *)
(* directory tree with a reserved ".../" child at every level that holds,  *)
(* per original entry, the nodes computed by a list of PerNodeFuncs.       *)
(*                                                                         *)
(* A node is a chain of wrappers around a base node:                       *)
(*   w    - the wrappers, outermost first: "impl" (perNodeImpl), "adds"    *)
(*          (perNodeAdds), "entry" (the Parent built by newAddsForChild);  *)
(*   base - a node of the original tree (src = "orig") or a node returned  *)
(*          by a PerNodeFunc (src = "add").                                *)
(* Every wrapper holds exactly one original, so the chain is the node.     *)
(* A caller holds the wrapped root, walks it with Child / Children and     *)
(* observes the result of each call in out.                                *)
(***************************************************************************)
EXTENDS Integers, Sequences, FiniteSets, TLC

VARIABLES tree, fns, root, cur, info, trail, out

vars == <<tree, fns, root, cur, info, trail, out>>

addsDirName == "..."

\* Bounds of the model.
MaxWrap == 2
MaxFns == 2

\* 0111 and the permission mask of Mode().Perm() (0777).
ExecBits == 73
PermMask == 511

Last(s) == s[Len(s)]

RECURSIVE BitOr(_, _)
BitOr(a, b) ==
    IF a = 0 THEN b
    ELSE IF b = 0 THEN a
    ELSE (IF a % 2 = 1 \/ b % 2 = 1 THEN 1 ELSE 0) + 2 * BitOr(a \div 2, b \div 2)

(***************************************************************************)
(* The original tree: a function from paths to entries.                    *)
(***************************************************************************)
Leaf(p) == [dir |-> FALSE, perm |-> p, kids |-> <<>>]
Dir(p, ks) == [dir |-> TRUE, perm |-> p, kids |-> ks]

\* parent/d/{a, b, e/}, optionally with an original entry named "..." in parent/.
TreeOf(dots, p0) ==
    LET plain == (<<>> :> Dir(493, IF dots = "none" THEN <<"d">> ELSE <<addsDirName, "d">>))
              @@ (<<"d">> :> Dir(448, <<"a", "b", "e">>))
              @@ (<<"d", "a">> :> Leaf(p0))
              @@ (<<"d", "b">> :> Leaf(420))
              @@ (<<"d", "e">> :> Dir(493, <<>>))
    IN  IF dots = "none" THEN plain
        ELSE plain @@ (<<addsDirName>> :> Dir(493, <<"b">>))
                   @@ (<<addsDirName, "b">> :> Leaf(384))

DotsKinds == {"none", "dir"}
PermSamples == {0}

OrigNode(t, p) ==
    [w |-> <<>>,
     base |-> [src |-> "orig", path |-> p, dir |-> t[p].dir, perm |-> t[p].perm, tag |-> 0]]

AddNode(name, isDir, tag) ==
    [w |-> <<>>,
     base |-> [src |-> "add", path |-> <<name>>, dir |-> isDir,
               perm |-> IF isDir THEN 493 ELSE 420, tag |-> tag]]

NoNode ==
    [w |-> <<>>, base |-> [src |-> "none", path |-> <<>>, dir |-> FALSE, perm |-> 0, tag |-> 0]]

Inner(n) == [n EXCEPT !.w = Tail(n.w)]

\* node.(fsnode.Parent): the wrappers are Parents, a base node is one if it is a directory.
IsParent(n) == n.w # <<>> \/ n.base.dir

BaseInfo(b) ==
    [name |-> IF b.path = <<>> THEN "parent" ELSE Last(b.path), perm |-> b.perm, dir |-> b.dir]

\* The FileInfo newAddsForChild gives the per-entry directory of original.
newAddsForChildPermOnly(originalInfo) ==
    [name |-> originalInfo.name, perm |-> ExecBits, dir |-> TRUE]

newAddsForChildInfo(originalInfo) ==
    [name |-> originalInfo.name,
     perm |-> BitOr(originalInfo.perm % (PermMask + 1), ExecBits),
     dir |-> TRUE]

RECURSIVE Info(_)
Info(n) ==
    IF n.w = <<>> THEN BaseInfo(n.base)
    ELSE CASE Head(n.w) = "impl"  -> Info(Inner(n))
           [] Head(n.w) = "adds"  -> [Info(Inner(n)) EXCEPT !.name = addsDirName]
           [] Head(n.w) = "entry" -> newAddsForChildInfo(Info(Inner(n)))

(***************************************************************************)
(* PerNodeFuncs.  Each is a function of the node it is applied to.         *)
(***************************************************************************)
FnIds == {"dup", "failb"}

ApplyFn(id, n) ==
    LET name == Info(n).name IN
    CASE id = "dup"   -> [err |-> FALSE,
                          adds |-> IF name \in {"a", "b"}
                                   THEN <<AddNode("x", FALSE, 1), AddNode("y", FALSE, 2),
                                          AddNode("x", FALSE, 3)>>
                                   ELSE <<>>]
      [] id = "failb" -> IF name = "b"
                         THEN [err |-> TRUE, adds |-> <<>>]
                         ELSE [err |-> FALSE,
                               adds |-> IF name = "a"
                                        THEN <<AddNode("y", TRUE, 4), AddNode("x", FALSE, 5)>>
                                        ELSE <<>>]

AddNames == {"x", "y"}

\* The orders in which a Go map over the addition names may be iterated.
Orders == {o \in [1 .. Cardinality(AddNames) -> AddNames] : \A i, j \in DOMAIN o : o[i] = o[j] => i = j}

FnLists == UNION {[1 .. k -> FnIds] : k \in 0 .. MaxFns}

(***************************************************************************)
(* Results of Child and Children: the nodes yielded, the error if any, the *)
(* Apply invocations made and the number of conflict diagnostics logged.   *)
(***************************************************************************)
Ok(ns) == [err |-> "", nodes |-> ns, calls |-> <<>>, diags |-> 0]
Fail(e) == [err |-> e, nodes |-> <<>>, calls |-> <<>>, diags |-> 0]

\* Child and Children of a node of the original tree or of an addition.
ParentChild(n, name) ==
    IF n.base.src = "orig" /\ n.base.dir /\ Append(n.base.path, name) \in DOMAIN tree
    THEN Ok(<<OrigNode(tree, Append(n.base.path, name))>>)
    ELSE Fail("NotFound")

ParentChildren(n) ==
    IF n.base.src = "orig"
    THEN LET ks == tree[n.base.path].kids
         IN  Ok([i \in 1 .. Len(ks) |-> OrigNode(tree, Append(n.base.path, ks[i]))])
    ELSE Ok(<<>>)

ApplyPerNodeFuncs(original) == [original EXCEPT !.w = <<"impl">> \o @]

\* The adds field that ApplyPerNodeFuncs builds for original.
perNodeAdds(original) == [original EXCEPT !.w = <<"adds">> \o @]

perNodeRecurseAlways(node) == ApplyPerNodeFuncs(node)

perNodeRecurse(node) ==
    IF ~IsParent(node) THEN node ELSE ApplyPerNodeFuncs(node)

newAddsForChild(original) == [original EXCEPT !.w = <<"entry">> \o @]

(***************************************************************************)
(* The children of a per-entry additions directory: the FuncChildren       *)
(* closure of newAddsForChild.  st is the state of its loop: the adds map, *)
(* the error returned (if any), the Apply calls made, the conflicts logged.*)
(***************************************************************************)
EmptyAdds == [x \in {} |-> NoNode]

StartAdds == [err |-> "", acc |-> EmptyAdds, calls |-> <<>>, diags |-> 0]

AddName(add) == Info(add).name

\* adds[name] = add
setAddKeepFirst(acc, add) == acc @@ (AddName(add) :> add)

setAdd(acc, add) == (AddName(add) :> add) @@ acc

RECURSIVE mergeAdds(_, _)
mergeAdds(st, fnAdds) ==
    IF fnAdds = <<>> THEN st
    ELSE LET add == Head(fnAdds)
             exists == AddName(add) \in DOMAIN st.acc
         IN  mergeAdds([st EXCEPT !.acc = setAdd(st.acc, add),
                                  !.diags = IF exists THEN @ + 1 ELSE @],
                       Tail(fnAdds))

\* One iteration of "for _, fn := range n.fns"; the loop has returned once err is set.
applyOneKeepGoing(st, fn, original) ==
    LET r == ApplyFn(fn, original)
        called == [st EXCEPT !.calls = Append(@, [fn |-> fn, on |-> original])]
    IN  IF r.err THEN called ELSE mergeAdds(called, r.adds)

applyOne(st, fn, original) ==
    IF st.err # "" THEN st
    ELSE LET r == ApplyFn(fn, original)
             called == [st EXCEPT !.calls = Append(@, [fn |-> fn, on |-> original])]
         IN  IF r.err
             THEN [called EXCEPT !.err = "Apply", !.acc = EmptyAdds]
             ELSE mergeAdds(called, r.adds)

RECURSIVE runFns(_, _, _)
runFns(st, fs, original) ==
    IF fs = <<>> THEN st
    ELSE runFns(applyOne(st, Head(fs), original), Tail(fs), original)

\* "for _, add := range adds": the map is iterated in the order the runtime picks.
wrappedAddsFirstOnly(acc, order) ==
    LET names == SelectSeq(order, LAMBDA x : x \in DOMAIN acc)
    IN  IF names = <<>> THEN <<>> ELSE <<perNodeRecurse(acc[names[1]])>>

wrappedAdds(acc, order) ==
    LET names == SelectSeq(order, LAMBDA x : x \in DOMAIN acc)
    IN  [i \in 1 .. Len(names) |-> perNodeRecurse(acc[names[i]])]

newAddsChildren(original, order) ==
    LET st == runFns(StartAdds, fns, original)
    IN  [err |-> st.err,
         nodes |-> IF st.err # "" THEN <<>> ELSE wrappedAdds(st.acc, order),
         calls |-> st.calls,
         diags |-> st.diags]

\* Child of a Parent built on FuncChildren: compute the children, pick the one named name.
GenerateChild(r, name) ==
    IF r.err # "" THEN r
    ELSE LET hits == SelectSeq(r.nodes, LAMBDA c : Info(c).name = name)
         IN  IF hits = <<>>
             THEN [r EXCEPT !.err = "NotFound", !.nodes = <<>>]
             ELSE [r EXCEPT !.nodes = <<hits[1]>>]

(***************************************************************************)
(* perNodeImpl and perNodeAdds.  r is what the wrapped original answered.  *)
(***************************************************************************)
perNodeImplChild(n, name, r) ==
    IF name = addsDirName THEN Ok(<<perNodeAdds(Inner(n))>>)
    ELSE IF r.err # "" THEN r
    ELSE [r EXCEPT !.nodes = <<perNodeRecurse(r.nodes[1])>>]

\* The Children the TODO of line 111 asks for: conflicting "..." filtered out.
perNodeImplChildrenFiltered(n, r) ==
    LET kept == SelectSeq(r.nodes, LAMBDA c : Info(c).name # addsDirName)
    IN  [r EXCEPT !.nodes = <<perNodeAdds(Inner(n))>>
                            \o [i \in 1 .. Len(kept) |-> perNodeRecurse(kept[i])]]

perNodeImplChildren(n, r) ==
    [r EXCEPT !.nodes = <<perNodeAdds(Inner(n))>>
                        \o [i \in 1 .. Len(r.nodes) |-> perNodeRecurse(r.nodes[i])]]

\* order: the map order, should the per-entry children be computed here (they are not).
perNodeAddsChildEager(n, r, order) ==
    IF r.err # "" THEN r
    ELSE [r EXCEPT !.nodes = <<newAddsForChild(r.nodes[1])>>,
                   !.calls = @ \o newAddsChildren(r.nodes[1], order).calls]

perNodeAddsChild(n, r, order) ==
    IF r.err # "" THEN r
    ELSE [r EXCEPT !.nodes = <<newAddsForChild(r.nodes[1])>>]

perNodeAddsChildrenDirsOnly(n, r) ==
    LET kept == SelectSeq(r.nodes, IsParent)
    IN  [r EXCEPT !.nodes = [i \in 1 .. Len(kept) |-> newAddsForChild(kept[i])]]

perNodeAddsChildren(n, r) ==
    [r EXCEPT !.nodes = [i \in 1 .. Len(r.nodes) |-> newAddsForChild(r.nodes[i])]]

RECURSIVE ChildOf(_, _, _)
ChildOf(n, name, order) ==
    IF n.w = <<>> THEN ParentChild(n, name)
    ELSE CASE Head(n.w) = "impl"  -> perNodeImplChild(n, name, ChildOf(Inner(n), name, order))
           [] Head(n.w) = "adds"  -> perNodeAddsChild(n, ChildOf(Inner(n), name, order), order)
           [] Head(n.w) = "entry" -> GenerateChild(newAddsChildren(Inner(n), order), name)

RECURSIVE ChildrenOf(_, _)
ChildrenOf(n, order) ==
    IF n.w = <<>> THEN ParentChildren(n)
    ELSE CASE Head(n.w) = "impl"  -> perNodeImplChildren(n, ChildrenOf(Inner(n), order))
           [] Head(n.w) = "adds"  -> perNodeAddsChildren(n, ChildrenOf(Inner(n), order))
           [] Head(n.w) = "entry" -> newAddsChildren(Inner(n), order)

(***************************************************************************)
(* The caller.                                                             *)
(***************************************************************************)
Names == {addsDirName, "a", "d", "x", "q"}

\* The map order matters only where a per-entry directory computes its children.
DefaultOrder == CHOOSE o \in Orders : TRUE

OrdersFor(n) ==
    IF \E i \in DOMAIN n.w : n.w[i] = "entry" THEN Orders ELSE {DefaultOrder}

Observed(op, target, name, r) ==
    [op |-> op, target |-> target, name |-> name,
     err |-> r.err, nodes |-> r.nodes, calls |-> r.calls, diags |-> r.diags]

NoOut == Observed("none", NoNode, "", Ok(<<>>))

Init ==
    /\ \E dots \in DotsKinds, p0 \in PermSamples : tree = TreeOf(dots, p0)
    /\ fns \in FnLists
    /\ root = OrigNode(tree, <<>>)
    /\ cur = root
    /\ info = Info(root)
    /\ trail = <<>>
    /\ out = NoOut

\* root = ApplyPerNodeFuncs(root, fns...)
Wrap ==
    /\ cur = root
    /\ trail = <<>>
    /\ Len(root.w) < MaxWrap
    /\ root' = ApplyPerNodeFuncs(root)
    /\ cur' = root'
    /\ info' = Info(root')
    /\ out' = Observed("wrap", root, "", Ok(<<root'>>))
    /\ UNCHANGED <<tree, fns, trail>>

\* cur.Child(ctx, name); the caller steps into the child when there is one.
Child ==
    /\ cur.w # <<>>
    /\ \E name \in Names, order \in OrdersFor(cur) :
         LET r == ChildOf(cur, name, order) IN
         /\ out' = Observed("Child", cur, name, r)
         /\ IF r.err = ""
            THEN /\ cur' = r.nodes[1]
                 /\ info' = Info(r.nodes[1])
                 /\ trail' = Append(trail, name)
            ELSE UNCHANGED <<cur, info, trail>>
    /\ UNCHANGED <<tree, fns, root>>

\* cur.Children(), read to its end.
Children ==
    /\ cur.w # <<>>
    /\ \E order \in OrdersFor(cur) : out' = Observed("Children", cur, "", ChildrenOf(cur, order))
    /\ UNCHANGED <<tree, fns, root, cur, info, trail>>

\* The caller steps into the i-th node the iterator yielded.
Select ==
    /\ out.op = "Children"
    /\ out.target = cur
    /\ \E i \in 1 .. Len(out.nodes) :
         /\ cur' = out.nodes[i]
         /\ info' = Info(out.nodes[i])
         /\ trail' = Append(trail, Info(out.nodes[i]).name)
         /\ out' = Observed("Select", cur, Info(out.nodes[i]).name, Ok(<<out.nodes[i]>>))
    /\ UNCHANGED <<tree, fns, root>>

\* The caller goes back to the root it holds.
Reset ==
    /\ root.w # <<>>
    /\ cur' = root
    /\ info' = Info(root)
    /\ trail' = <<>>
    /\ out' = NoOut
    /\ UNCHANGED <<tree, fns, root>>

Next == Wrap \/ Child \/ Children \/ Select \/ Reset

Spec == Init /\ [][Next]_vars

\* A single overlay of the plain tree whose leaf d/a has any permission bits.
InitPerm ==
    /\ \E p0 \in 0 .. PermMask : tree = TreeOf("none", p0)
    /\ fns = <<>>
    /\ root = OrigNode(tree, <<>>)
    /\ cur = root
    /\ info = Info(root)
    /\ trail = <<>>
    /\ out = NoOut

WrapOnce == root.w = <<>> /\ Wrap

NextPerm == WrapOnce \/ Child \/ Children \/ Select \/ Reset

SpecPerm == InitPerm /\ [][NextPerm]_vars

(***************************************************************************)
(* What the properties below are stated with.  None of it uses the         *)
(* definitions of the overlay above: the expected nodes are written out.   *)
(***************************************************************************)
NonReserved(t) == \A i \in DOMAIN t : t[i] # addsDirName

HasEntry(n) == \E i \in DOMAIN n.w : n.w[i] = "entry"

IsAdditionsDir(n) == n.w # <<>> /\ Head(n.w) = "adds"

Impls(k) == [i \in 1 .. k |-> "impl"]

OrigBase(p) ==
    [src |-> "orig", path |-> p, dir |-> tree[p].dir, perm |-> tree[p].perm, tag |-> 0]

\* The node the k-fold overlay shows at original path p.
ExpectedMirror(p, k) ==
    [w |-> IF tree[p].dir THEN Impls(k) ELSE <<>>, base |-> OrigBase(p)]

ExpectedEntry(p) == [w |-> <<"entry">>, base |-> OrigBase(p)]

ExpectedRecurse(add) == IF add.base.dir THEN [add EXCEPT !.w = <<"impl">>] ELSE add

BaseName(n) == n.base.path[Len(n.base.path)]

\* The node under the outermost "entry" wrapper of n.
EntryOriginal(n) ==
    LET i == CHOOSE i \in DOMAIN n.w : n.w[i] = "entry" /\ \A j \in 1 .. i - 1 : n.w[j] # "entry"
    IN  [n EXCEPT !.w = SubSeq(n.w, i + 1, Len(n.w))]

\* Everything the functions return for x, in list order then encounter order.
RECURSIVE ProducedBy(_, _)
ProducedBy(fs, x) ==
    IF fs = <<>> THEN <<>> ELSE ApplyFn(Head(fs), x).adds \o ProducedBy(Tail(fs), x)

Produced(x) == ProducedBy(fns, x)

Failing(x) == {i \in DOMAIN fns : ApplyFn(fns[i], x).err}

ExpectedCalls(x, k) == [i \in 1 .. k |-> [fn |-> fns[i], on |-> x]]

MinOf(S) == CHOOSE i \in S : \A j \in S : i <= j

IsLast(prod, i) == \A k \in DOMAIN prod : k > i => BaseName(prod[k]) # BaseName(prod[i])

IsFirst(prod, i) == \A k \in DOMAIN prod : k < i => BaseName(prod[k]) # BaseName(prod[i])

\* The names of prod, each at the place of its first occurrence.
FirstInsertionOrder(prod) ==
    LET firsts == SelectSeq([i \in DOMAIN prod |-> i], LAMBDA i : IsFirst(prod, i))
    IN  [j \in 1 .. Len(firsts) |-> BaseName(prod[firsts[j]])]

EntryListing == out.op = "Children" /\ out.target.w # <<>> /\ Head(out.target.w) = "entry"

ExpectedPerm(p) ==
    p + (IF (p \div 64) % 2 = 0 THEN 64 ELSE 0)
      + (IF (p \div 8) % 2 = 0 THEN 8 ELSE 0)
      + (IF p % 2 = 0 THEN 1 ELSE 0)

(***************************************************************************)
(* C1: every child named "..." that a directory of the overlay exposes,    *)
(* through Child("...") or in its Children() listing, is the synthetic     *)
(* additions directory; an original entry named "..." is never listed.     *)
(* The code does not keep this: Children() passes an original "..." on.    *)
(***************************************************************************)
C1_ReservedIsAdditionsDir ==
    (out.op \in {"Child", "Children"} /\ ~HasEntry(out.target))
        => \A i \in DOMAIN out.nodes :
               Info(out.nodes[i]).name = addsDirName => IsAdditionsDir(out.nodes[i])

(***************************************************************************)
(* C2: resolving non-reserved names n1..nk by successive Child calls from  *)
(* the overlay succeeds exactly when it does in the original tree, fails   *)
(* with the original's NotFound otherwise, and yields the wrapped          *)
(* directory or the unchanged leaf (which has no children at all).         *)
(***************************************************************************)
C2_MirrorsOriginal ==
    (root.w # <<>> /\ NonReserved(trail))
        => /\ trail \in DOMAIN tree
           /\ cur = ExpectedMirror(trail, Len(root.w))
           /\ (out.op = "Child" /\ out.name # addsDirName)
                 => LET p == out.target.base.path
                        q == Append(p, out.name)
                    IN  /\ out.target = ExpectedMirror(p, Len(root.w))
                        /\ out.err = "" <=> q \in DOMAIN tree
                        /\ out.err # "" => out.err = "NotFound" /\ out.nodes = <<>>
                        /\ out.err = "" => /\ out.nodes = <<ExpectedMirror(q, Len(root.w))>>
                                           /\ trail = q

C2_Witness ==
    /\ Len(root.w) = 1
    /\ out.op = "Child"
    /\ trail = <<"d", "a">>
    /\ cur.w = <<>>

C4_LastWriterWins ==
    (EntryListing /\ Failing(Inner(out.target)) = {})
        => LET prod == Produced(Inner(out.target)) IN
           /\ out.err = ""
           /\ \A i \in DOMAIN prod :
                 Cardinality({j \in DOMAIN out.nodes : BaseName(out.nodes[j]) = BaseName(prod[i])}) = 1
           /\ \A j \in DOMAIN out.nodes :
                 \E i \in DOMAIN prod : IsLast(prod, i) /\ out.nodes[j] = ExpectedRecurse(prod[i])
           /\ out.diags = Len(prod) - Cardinality({BaseName(prod[i]) : i \in DOMAIN prod})

C4_Witness ==
    /\ EntryListing
    /\ out.err = ""
    /\ Len(fns) = 2
    /\ fns[1] # fns[2]
    /\ \E i, j \in DOMAIN out.calls :
          /\ i < j
          /\ \E a \in DOMAIN ApplyFn(fns[i], Inner(out.target)).adds,
                b \in DOMAIN ApplyFn(fns[j], Inner(out.target)).adds :
                BaseName(ApplyFn(fns[i], Inner(out.target)).adds[a])
                    = BaseName(ApplyFn(fns[j], Inner(out.target)).adds[b])

(***************************************************************************)
(* C5: the additions listing of an entry fails if and only if some         *)
(* function fails on that entry; a failed listing yields no children and   *)
(* invokes no function after the first failing one; the outcome is a       *)
(* function of the entry and the function list alone, whatever was listed  *)
(* before.                                                                 *)
(***************************************************************************)
C5_FailFastPerEntry ==
    EntryListing
        => LET x == Inner(out.target)
               failing == Failing(x)
           IN  /\ out.err # "" <=> failing # {}
               /\ failing # {} => /\ out.err = "Apply"
                                  /\ out.nodes = <<>>
                                  /\ out.calls = ExpectedCalls(x, MinOf(failing))
               /\ failing = {} => out.calls = ExpectedCalls(x, Len(fns))

C5_Witness ==
    /\ EntryListing
    /\ out.err = "Apply"
    /\ out.calls # <<>>
    /\ Len(out.calls) < Len(fns)

(***************************************************************************)
(* C6: Children() of an overlay wrapper yields the additions directory     *)
(* and then the n original children, each through recurse, in order; and   *)
(* the listed item with a given name is the node Child(name) returns.      *)
(* The second half fails in the code where an original child is named      *)
(* "...".                                                                  *)
(***************************************************************************)
C6_ListingConsistentWithChild ==
    (out.op = "Children" /\ out.err = "" /\ out.target.w # <<>> /\ Head(out.target.w) = "impl")
        => /\ Len(out.nodes) >= 1
           /\ IsAdditionsDir(out.nodes[1])
           /\ (out.target.w = <<"impl">> /\ out.target.base.src = "orig")
                 => LET p == out.target.base.path
                        ks == tree[p].kids
                    IN  out.nodes = <<[w |-> <<"adds">>, base |-> OrigBase(p)]>>
                                    \o [i \in 1 .. Len(ks) |-> ExpectedMirror(Append(p, ks[i]), 1)]
           /\ \A i \in DOMAIN out.nodes :
                 \E order \in OrdersFor(out.target) :
                    LET r == ChildOf(out.target, Info(out.nodes[i]).name, order)
                    IN  r.err = "" /\ r.nodes = <<out.nodes[i]>>

(***************************************************************************)
(* C7: the additions directory of an original directory P lists exactly    *)
(* one per-entry additions directory per child of P, leaf or directory,    *)
(* under the child's name and itself a directory; Child(name) returns that *)
(* child's per-entry directory, or the original's NotFound.                *)
(***************************************************************************)
C7_AddsMirrorsEntries ==
    /\ (out.op \in {"Child", "Children"} /\ out.target.w = <<"adds">> /\ out.target.base.src = "orig")
          => LET p == out.target.base.path
                 ks == tree[p].kids
             IN  /\ out.calls = <<>>
                 /\ out.op = "Children"
                       => /\ out.err = ""
                          /\ out.nodes = [i \in 1 .. Len(ks) |-> ExpectedEntry(Append(p, ks[i]))]
                 /\ out.op = "Child"
                       => IF Append(p, out.name) \in DOMAIN tree
                          THEN out.err = "" /\ out.nodes = <<ExpectedEntry(Append(p, out.name))>>
                          ELSE out.err = "NotFound" /\ out.nodes = <<>>
    /\ (cur.w = <<"entry">> /\ cur.base.src = "orig")
          => info.dir /\ info.name = BaseName(cur)

C7_Witness ==
    /\ out.op = "Children"
    /\ out.target.w = <<"adds">>
    /\ out.target.base.path = <<"d">>
    /\ Len(out.nodes) = 3
    /\ ~out.nodes[1].base.dir

(***************************************************************************)
(* C8: the per-entry additions directory of an original entry with         *)
(* permission bits p, for every p in 0..0777, has permission bits p OR     *)
(* 0111 and the entry's name.                                              *)
(***************************************************************************)
C8_EntryPermission ==
    (cur.w = <<"entry">> /\ cur.base.src = "orig")
        => /\ info.perm = ExpectedPerm(cur.base.perm)
           /\ info.name = BaseName(cur)

C8_Witness ==
    /\ cur.w = <<"entry">>
    /\ cur.base.path = <<"d", "a">>
    /\ cur.base.perm = 420
    /\ info.perm = 493

C10_ListingInInsertionOrder ==
    (EntryListing /\ out.err = "")
        => [j \in DOMAIN out.nodes |-> BaseName(out.nodes[j])]
               = FirstInsertionOrder(Produced(Inner(out.target)))

(***************************************************************************)
(* C10, amended: the accumulator is an unordered map, so the children come *)
(* in some order; every successful listing of an entry holds each distinct *)
(* addition name exactly once, and the set of children depends on the      *)
(* entry and the functions only.                                           *)
(***************************************************************************)
C10_ListingIsPermutation ==
    (EntryListing /\ out.err = "")
        => LET prod == Produced(Inner(out.target))
               names == {BaseName(prod[i]) : i \in DOMAIN prod}
           IN  /\ Len(out.nodes) = Cardinality(names)
               /\ {BaseName(out.nodes[j]) : j \in DOMAIN out.nodes} = names
               /\ {out.nodes[j] : j \in DOMAIN out.nodes}
                     = {ExpectedRecurse(prod[i]) : i \in {i \in DOMAIN prod : IsLast(prod, i)}}

C10_Witness ==
    /\ EntryListing
    /\ out.err = ""
    /\ Len(out.nodes) = 2
    /\ [j \in DOMAIN out.nodes |-> BaseName(out.nodes[j])]
          # FirstInsertionOrder(Produced(Inner(out.target)))

====
